---- MODULE Spec2Model ----
(***************************************************************************)
(* The turn coordinator of VozViva (src/App.tsx) with the two calls of     *)
(* src/services/geminiService.ts it awaits.                                *)
(*                                                                         *)
(* Everything runs on one event loop: each action below is one task (an    *)
(* event handler, a promise continuation, a timer callback or the effect   *)
(* that copies status into statusRef) run to its next suspension point.    *)
(* An await on a promise that is already settled resumes in a microtask,   *)
(* before any other task, so it does not end the action.                   *)
(***************************************************************************)
EXTENDS Integers, Sequences, FiniteSets, Bags, TLC

\* Pipelines (processFinalText/speak invocations) that may be suspended at once.
MaxTurns == 2
\* Length of event.results in one recognition result event.
MaxResults == 3

IDLE == "IDLE"
LISTENING == "LISTENING"
PROCESSING == "PROCESSING"
SPEAKING == "SPEAKING"
ERROR == "ERROR"
AppStatus == {IDLE, LISTENING, PROCESSING, SPEAKING, ERROR}

\* Characters of the texts: a blank and a letter.
Chars == {" ", "a"}
Strings(n) == UNION {[1..k -> Chars] : k \in 0..n}

\* transcript of one SpeechRecognitionResult alternative: a blank or a letter.
Transcripts == Strings(1) \ {<<>>}
Results == [isFinal : BOOLEAN, transcript : Transcripts]
Events ==
    UNION {[resultIndex : 0..k, results : [1..k -> Results]] : k \in 0..MaxResults}

\* What model.generateContent does in correctTranscription: throws, or answers.
Throw == [threw |-> TRUE, text |-> <<>>]
Answer(s) == [threw |-> FALSE, text |-> s]
\* The answers: empty, blank, and a padded text.
CorrectionOutcomes == {Throw, Answer(<<>>), Answer(<<" ">>), Answer(<<" ", "a">>)}

\* What model.generateContent does in synthesizeSpeech: throws, answers without
\* inline data, or answers with data: empty, well-formed PCM16, or bytes that
\* decodeBase64/decodeAudioData reject.
SynthesisOutcomes == {"throw", "nodata", "empty", "pcm16", "undecodable"}
Absent == "undefined"

\* error codes of a SpeechRecognitionErrorEvent.
ErrorCodes == {"no-speech", "not-allowed", "network"}

\* settings.useGeminiCorrection, as captured by the processFinalText that the
\* recognition handlers call.
useGeminiCorrection == TRUE

VARIABLES
    status,             \* useState<AppStatus>: the value of the latest setStatus
    statusRef,          \* statusRef.current
    isProcessingRef,    \* isProcessingRef.current
    recognitionRef,     \* "null", or the state of the webkitSpeechRecognition object
    lastTranscription,  \* useState<TranscriptionResult | null>
    turns,              \* suspended processFinalText/speak invocations
    lastEvent,          \* the task that ran last and what it did
    part000             \* the state of the component of src/unnamed/part_000

vars == <<status, statusRef, isProcessingRef, recognitionRef, lastTranscription,
          turns, lastEvent, part000>>

\* recognitionRef: "null" before initRecognition; then the object is "inactive",
\* "starting" (start() called, start event not yet delivered), "running", or
\* "ending" (aborted or failed, end event not yet delivered).
RecStates == {"null", "inactive", "starting", "running", "ending"}

\* turns is the bag of the suspended invocations, each a record of where it is
\* suspended and the text it holds there. pc: "correct" (awaiting
\* correctTranscription(text)), "synth" (awaiting synthesizeSpeech),
\* "playing" (source started, onended pending), "cooldown" (the setTimeout of
\* onended pending).
Pcs == {"correct", "synth", "playing", "cooldown"}
Turn(pc, text) == [pc |-> pc, text |-> text]
InFlight == BagToSet(turns)
Suspend(t) == turns (+) SetToBag({t})
Resume(t) == turns (-) SetToBag({t})

NoTranscription == [original |-> <<>>, corrected |-> <<>>]

\* lastEvent of a task: its handler and what it did
Ev(op, res) == [op |-> op, from |-> "-", res |-> res]
\* lastEvent of a click on the start/stop button, with the status it found
Click(res) == [op |-> "toggleListening", from |-> status, res |-> res]

----------------------------------------------------------------------------
\* String.prototype.trim
RECURSIVE TrimLeft(_)
TrimLeft(s) == IF s # <<>> /\ Head(s) = " " THEN TrimLeft(Tail(s)) ELSE s
RECURSIVE TrimRight(_)
TrimRight(s) ==
    IF s # <<>> /\ s[Len(s)] = " " THEN TrimRight(SubSeq(s, 1, Len(s) - 1)) ELSE s
trim(s) == TrimRight(TrimLeft(s))

\* the loop of onresult over event.results from event.resultIndex
RECURSIVE FinalFrom(_, _)
FinalFrom(event, i) ==
    IF i >= Len(event.results) THEN <<>>
    ELSE (IF event.results[i + 1].isFinal THEN event.results[i + 1].transcript
          ELSE <<>>) \o FinalFrom(event, i + 1)
finalTranscript(event) == FinalFrom(event, event.resultIndex)

\* correctTranscription returns before any network call for a short text
CallsModel(text) == ~(text = <<>> \/ Len(text) < 3)

\* correctTranscription returning the trimmed answer without "|| text"
correctTranscriptionNoFallback(text, outcome) ==
    IF ~CallsModel(text) THEN text
    ELSE IF outcome.threw THEN text
    ELSE trim(outcome.text)

correctTranscription(text, outcome) ==
    IF ~CallsModel(text) THEN text
    ELSE IF outcome.threw THEN text
    ELSE IF trim(outcome.text) # <<>> THEN trim(outcome.text) ELSE text

synthesizeSpeech(outcome) ==
    IF outcome \in {"throw", "nodata"} THEN Absent ELSE outcome

\* if (base64Audio)
Truthy(base64Audio) == base64Audio \notin {Absent, "empty"}
\* decodeBase64 and decodeAudioData complete without throwing
Decodes(base64Audio) == base64Audio = "pcm16"

\* SpeechRecognition.abort(): an active object ends; its end event is queued
abort(rec) == IF rec \in {"starting", "running"} THEN "ending" ELSE rec
\* SpeechRecognition.start() throws InvalidStateError unless the object is inactive
StartThrows(rec) == rec # "inactive"
start(rec) == IF StartThrows(rec) THEN rec ELSE "starting"

\* The component of src/unnamed/part_000, a second version of the coordinator:
\* its status, statusRef.current, the state of recognitionRef.current, and
\* what the last press of its start/stop button did.
Part000Init ==
    [status |-> IDLE, statusRef |-> IDLE, recognitionRef |-> "null",
     lastEvent |-> "init"]

----------------------------------------------------------------------------
Init ==
    /\ status = IDLE
    /\ statusRef = IDLE
    /\ isProcessingRef = FALSE
    /\ recognitionRef = "null"
    /\ lastTranscription = NoTranscription
    /\ turns = EmptyBag
    /\ lastEvent = Ev("init", "none")
    /\ part000 = Part000Init

\* useEffect(() => { statusRef.current = status }, [status])
UseEffect ==
    /\ statusRef # status
    /\ statusRef' = status
    /\ lastEvent' = Ev("useEffect", "synced")
    /\ UNCHANGED <<status, isProcessingRef, recognitionRef, lastTranscription, turns>>
    /\ UNCHANGED part000

\* recognitionRef.current after initRecognition, on a browser that has
\* webkitSpeechRecognition: a new object, not started
initRecognition == "inactive"

\* toggleListening whose stop branch leaves isProcessingRef as it is
toggleListeningKeepsGuard ==
    /\ IF status = IDLE
       THEN LET rec == IF recognitionRef = "null" THEN initRecognition
                       ELSE recognitionRef
            IN /\ recognitionRef' = start(rec)
               /\ lastEvent' = Click(IF StartThrows(rec) THEN "threw" ELSE "started")
               /\ UNCHANGED <<status, statusRef, isProcessingRef, lastTranscription, turns>>
       ELSE /\ recognitionRef' = abort(recognitionRef)
            /\ status' = IDLE
            /\ lastEvent' = Click("stopped")
            /\ UNCHANGED <<statusRef, isProcessingRef, lastTranscription, turns>>
    /\ UNCHANGED part000

\* toggleListening whose stop branch does not abort the recognition
toggleListeningWithoutAbort ==
    /\ IF status = IDLE
       THEN LET rec == IF recognitionRef = "null" THEN initRecognition
                       ELSE recognitionRef
            IN /\ recognitionRef' = start(rec)
               /\ lastEvent' = Click(IF StartThrows(rec) THEN "threw" ELSE "started")
               /\ UNCHANGED <<status, statusRef, isProcessingRef, lastTranscription, turns>>
       ELSE /\ isProcessingRef' = FALSE
            /\ status' = IDLE
            /\ lastEvent' = Click("stopped")
            /\ UNCHANGED <<statusRef, recognitionRef, lastTranscription, turns>>
    /\ UNCHANGED part000

toggleListening ==
    /\ IF status = IDLE
       THEN LET rec == IF recognitionRef = "null" THEN initRecognition
                       ELSE recognitionRef
            IN /\ recognitionRef' = start(rec)
               /\ lastEvent' = Click(IF StartThrows(rec) THEN "threw" ELSE "started")
               /\ UNCHANGED <<status, statusRef, isProcessingRef, lastTranscription, turns>>
       ELSE /\ isProcessingRef' = FALSE
            /\ recognitionRef' = abort(recognitionRef)
            /\ status' = IDLE
            /\ lastEvent' = Click("stopped")
            /\ UNCHANGED <<statusRef, lastTranscription, turns>>
    /\ UNCHANGED part000

onstart ==
    /\ recognitionRef = "starting"
    /\ recognitionRef' = "running"
    /\ status' = LISTENING
    /\ isProcessingRef' = FALSE
    /\ lastEvent' = Ev("onstart", "listening")
    /\ UNCHANGED <<statusRef, lastTranscription, turns>>
    /\ UNCHANGED part000

\* speak up to its first suspension, await synthesizeSpeech(text, ...), added to
\* the suspended invocations rest; speak does not read text after the call
speak(rest, text) ==
    /\ status' = SPEAKING
    /\ turns' = rest (+) SetToBag({Turn("synth", <<>>)})

\* processFinalText up to its first suspension
processFinalText(text) ==
    /\ recognitionRef' = abort(recognitionRef)
    /\ IF useGeminiCorrection /\ CallsModel(text)
       THEN /\ status' = PROCESSING
            /\ turns' = Suspend(Turn("correct", text))
            /\ UNCHANGED lastTranscription
       ELSE /\ lastTranscription' =
                   [original |-> text,
                    corrected |-> IF useGeminiCorrection
                                  THEN correctTranscription(text, Throw) ELSE text]
            /\ speak(turns, lastTranscription'.corrected)

\* the check of onresult without isProcessingRef
IgnoresWithoutGuard == statusRef # LISTENING

\* if (isProcessingRef.current || statusRef.current !== AppStatus.LISTENING) return
Ignores == isProcessingRef \/ statusRef # LISTENING

\* the texts onresult computes from the events: finalTranscript.trim()
FinalTexts == {trim(finalTranscript(event)) : event \in Events}

\* onresult for an event with finalTranscript.trim() = text. A result event may
\* already be queued when abort() is called, so it is also delivered to an
\* object that is ending.
onresult(text) ==
    /\ recognitionRef \in {"running", "ending"}
    /\ IF ~Ignores /\ text # <<>>
       THEN /\ BagCardinality(turns) < MaxTurns
            /\ isProcessingRef' = TRUE
            /\ processFinalText(text)
            /\ lastEvent' = Ev("onresult", "accepted")
            /\ UNCHANGED statusRef
       ELSE /\ lastEvent' = Ev("onresult", IF Ignores THEN "ignored" ELSE "blank")
            /\ UNCHANGED <<status, statusRef, isProcessingRef, recognitionRef,
                           lastTranscription, turns>>
    /\ UNCHANGED part000

\* An error ends the recognition: the end event is queued behind it.
onerror(code) ==
    /\ recognitionRef \in {"starting", "running"}
    /\ recognitionRef' = "ending"
    /\ IF code # "no-speech"
       THEN /\ status' = IDLE
            /\ isProcessingRef' = FALSE
            /\ lastEvent' = Ev("onerror", "fatal")
       ELSE /\ lastEvent' = Ev("onerror", "ignored")
            /\ UNCHANGED <<status, isProcessingRef>>
    /\ UNCHANGED <<statusRef, lastTranscription, turns>>
    /\ UNCHANGED part000

\* if (statusRef.current === AppStatus.LISTENING && !isProcessingRef.current)
Restarts == statusRef = LISTENING /\ ~isProcessingRef

\* The end event follows an abort or an error, or the engine ends by itself
\* (silence); when the handler runs the object has ended, so start() succeeds.
onend ==
    /\ recognitionRef \in {"running", "ending"}
    /\ IF Restarts
       THEN /\ recognitionRef' = start("inactive")
            /\ lastEvent' = Ev("onend", "restarted")
       ELSE /\ recognitionRef' = "inactive"
            /\ lastEvent' = Ev("onend", "stopped")
    /\ UNCHANGED <<status, statusRef, isProcessingRef, lastTranscription, turns>>
    /\ UNCHANGED part000

\* processFinalText resumed after await correctTranscription(text)
CorrectionReturns(t, outcome) ==
    /\ t.pc = "correct"
    /\ lastTranscription' =
           [original |-> t.text, corrected |-> correctTranscription(t.text, outcome)]
    /\ speak(Resume(t), lastTranscription'.corrected)
    /\ lastEvent' = Ev("correction",
                       IF outcome.threw THEN "threw"
                       ELSE IF trim(outcome.text) = <<>> THEN "empty" ELSE "text")
    /\ UNCHANGED <<statusRef, isProcessingRef, recognitionRef>>
    /\ UNCHANGED part000

\* A speak whose catch recovers as its no-audio branch does: it clears the
\* guard, sets Listening and starts the recognition.
SynthesisReturnsRestartsOnError(t, outcome) ==
    /\ t.pc = "synth"
    /\ LET base64Audio == synthesizeSpeech(outcome)
       IN IF Truthy(base64Audio) /\ Decodes(base64Audio)
          THEN /\ turns' = Resume(t) (+) SetToBag({Turn("playing", <<>>)})
               /\ lastEvent' = Ev("synthesis", "playing")
               /\ UNCHANGED <<status, isProcessingRef, recognitionRef>>
          ELSE /\ turns' = Resume(t)
               /\ isProcessingRef' = FALSE
               /\ recognitionRef' = start(recognitionRef)
               /\ status' = IF StartThrows(recognitionRef) THEN IDLE ELSE LISTENING
               /\ lastEvent' = Ev("synthesis",
                                  IF Truthy(base64Audio) THEN "decode-error"
                                  ELSE IF StartThrows(recognitionRef)
                                       THEN "absent-start-threw"
                                       ELSE "absent-restarted")
    /\ UNCHANGED <<statusRef, lastTranscription>>
    /\ UNCHANGED part000

\* speak resumed after await synthesizeSpeech(...)
SynthesisReturns(t, outcome) ==
    /\ t.pc = "synth"
    /\ LET base64Audio == synthesizeSpeech(outcome)
       IN IF Truthy(base64Audio)
          THEN IF Decodes(base64Audio)
               THEN /\ turns' = Resume(t) (+) SetToBag({Turn("playing", <<>>)})
                    /\ lastEvent' = Ev("synthesis", "playing")
                    /\ UNCHANGED <<status, isProcessingRef, recognitionRef>>
               ELSE /\ turns' = Resume(t)
                    /\ isProcessingRef' = FALSE
                    /\ status' = IDLE
                    /\ lastEvent' = Ev("synthesis", "decode-error")
                    /\ UNCHANGED recognitionRef
          ELSE /\ turns' = Resume(t)
               /\ isProcessingRef' = FALSE
               /\ recognitionRef' = start(recognitionRef)
               /\ IF StartThrows(recognitionRef)
                  THEN /\ status' = IDLE
                       /\ lastEvent' = Ev("synthesis", "absent-start-threw")
                  ELSE /\ status' = LISTENING
                       /\ lastEvent' = Ev("synthesis", "absent-restarted")
    /\ UNCHANGED <<statusRef, lastTranscription>>
    /\ UNCHANGED part000

\* source.onended: arms the one-second timer
onended(t) ==
    /\ t.pc = "playing"
    /\ turns' = Resume(t) (+) SetToBag({Turn("cooldown", <<>>)})
    /\ lastEvent' = Ev("onended", "timer-armed")
    /\ UNCHANGED <<status, statusRef, isProcessingRef, recognitionRef, lastTranscription>>
    /\ UNCHANGED part000

\* A timer callback that clears the guard and restarts the recognition but
\* leaves status as it is.
CooldownTimerKeepsStatus(t) ==
    /\ t.pc = "cooldown"
    /\ turns' = Resume(t)
    /\ isProcessingRef' = FALSE
    /\ IF statusRef # IDLE
       THEN /\ recognitionRef' = start(recognitionRef)
            /\ lastEvent' = Ev("timer", IF StartThrows(recognitionRef)
                                        THEN "already-active" ELSE "restarted")
       ELSE /\ lastEvent' = Ev("timer", "idle")
            /\ UNCHANGED recognitionRef
    /\ UNCHANGED <<status, statusRef, lastTranscription>>
    /\ UNCHANGED part000

\* the callback of setTimeout(..., 1000) in source.onended
CooldownTimer(t) ==
    /\ t.pc = "cooldown"
    /\ turns' = Resume(t)
    /\ isProcessingRef' = FALSE
    /\ IF statusRef # IDLE
       THEN /\ status' = LISTENING
            /\ recognitionRef' = start(recognitionRef)
            /\ lastEvent' = Ev("timer",
                               IF StartThrows(recognitionRef) THEN "already-active"
                               ELSE "restarted")
       ELSE /\ lastEvent' = Ev("timer", "idle")
            /\ UNCHANGED <<status, recognitionRef>>
    /\ UNCHANGED <<statusRef, lastTranscription>>
    /\ UNCHANGED part000

Next ==
    \/ UseEffect
    \/ toggleListening
    \/ onstart
    \/ \E text \in FinalTexts : onresult(text)
    \/ \E code \in ErrorCodes : onerror(code)
    \/ onend
    \/ \E t \in InFlight : \E outcome \in CorrectionOutcomes : CorrectionReturns(t, outcome)
    \/ \E t \in InFlight : \E outcome \in SynthesisOutcomes : SynthesisReturns(t, outcome)
    \/ \E t \in InFlight : onended(t)
    \/ \E t \in InFlight : CooldownTimer(t)

Spec == Init /\ [][Next]_vars

TypeOK ==
    /\ status \in AppStatus
    /\ statusRef \in AppStatus
    /\ isProcessingRef \in BOOLEAN
    /\ recognitionRef \in RecStates
    /\ IsABag(turns)
    /\ \A t \in InFlight : t.pc \in Pcs /\ t.text \in Strings(MaxResults)
    /\ part000.status \in AppStatus
    /\ part000.statusRef \in AppStatus
    /\ part000.recognitionRef \in RecStates

\* The steps of the turns in flight that the environment owes the program: a
\* promise of generateContent settles, the AudioBufferSourceNode ends, the timer
\* of setTimeout(..., 1000) fires.
CorrectionCompletes ==
    \E t \in InFlight : \E outcome \in CorrectionOutcomes : CorrectionReturns(t, outcome)
SynthesisCompletes ==
    \E t \in InFlight : \E outcome \in SynthesisOutcomes : SynthesisReturns(t, outcome)
PlaybackEnds == \E t \in InFlight : onended(t)
\* React runs the effect of a render within the frame that follows setStatus, so
\* a callback that waited the 1000 ms of the cooldown runs after it: it finds
\* the mirror in step with status.
TimerFires == \E t \in InFlight : statusRef = status /\ CooldownTimer(t)

NextFair ==
    \/ UseEffect
    \/ toggleListening
    \/ onstart
    \/ \E text \in FinalTexts : onresult(text)
    \/ \E code \in ErrorCodes : onerror(code)
    \/ onend
    \/ CorrectionCompletes
    \/ SynthesisCompletes
    \/ PlaybackEnds
    \/ TimerFires

\* Every call, playback and timer eventually completes and every render
\* eventually runs its effect; the user and the recognition owe nothing.
FairSpec ==
    /\ Init
    /\ [][NextFair]_vars
    /\ WF_vars(UseEffect)
    /\ WF_vars(CorrectionCompletes)
    /\ WF_vars(SynthesisCompletes)
    /\ WF_vars(PlaybackEnds)
    /\ WF_vars(TimerFires)

\* stopMicrophone: onend = null, then abort()
stopMicrophone(c) == [c EXCEPT !.recognitionRef = abort(@)]

\* startMicrophone: returns at once when the mirror reads IDLE; otherwise
\* stopMicrophone(), initRecognition() and start() on the new object
startMicrophone(c) ==
    IF c.statusRef = IDLE
    THEN [c EXCEPT !.lastEvent = "returned"]
    ELSE [stopMicrophone(c) EXCEPT !.recognitionRef = start(initRecognition),
                                   !.lastEvent = "started"]

\* onClick of the button in the footer
footerButton ==
    /\ part000' = IF part000.status = IDLE
                  THEN startMicrophone(part000)
                  ELSE [stopMicrophone(part000) EXCEPT !.status = IDLE,
                                                       !.lastEvent = "stopped"]
    /\ UNCHANGED <<status, statusRef, isProcessingRef, recognitionRef,
                   lastTranscription, turns, lastEvent>>

\* The two components side by side: no handler of one touches the other. The
\* component of part_000 sets its status only in handlers that initRecognition
\* registers and in the branch of the button that needs status # IDLE, so its
\* effect has nothing to copy before a start.
NextPart000 ==
    \/ Next
    \/ footerButton

SpecPart000 == Init /\ [][NextPart000]_vars

----------------------------------------------------------------------------
\* The recognition object is active: started, and neither ended nor aborted.
Active == recognitionRef \in {"starting", "running"}
\* The task that ran last.
Ran(op, res) == lastEvent.op = op /\ lastEvent.res = res

\* C1: a result event delivered while the guard is set starts no turn and changes
\* nothing (it is dropped, not queued); a step that starts a turn found the guard
\* clear and sets it in that same step, so of two results delivered back to back
\* only the first starts a turn.
C1_GuardedResultsAreDiscarded ==
    [][/\ (isProcessingRef /\ lastEvent'.op = "onresult") =>
            UNCHANGED <<status, statusRef, isProcessingRef, recognitionRef,
                        lastTranscription, turns>>
       /\ (BagCardinality(turns') > BagCardinality(turns)) =>
            (~isProcessingRef /\ isProcessingRef')]_vars

\* C1 witness: a result event has just been ignored while the turn accepted before
\* it is awaiting its correction and the mirror still reads Listening.
C1_Witness ==
    /\ Ran("onresult", "ignored")
    /\ isProcessingRef
    /\ statusRef = LISTENING
    /\ status = PROCESSING
    /\ BagCardinality(turns) = 1

\* C2: at most one turn is in flight: no transcript is accepted while the
\* correction, synthesis, playback or cooldown timer of an earlier one is pending.
C2_AtMostOneTurnInFlight == BagCardinality(turns) <= 1

\* C3: whenever status is Processing or Speaking the guard is set.
C3_GuardSetWhileProcessingOrSpeaking ==
    status \in {PROCESSING, SPEAKING} => isProcessingRef

\* C4: whenever status is Idle or Listening the guard is clear.
C4_GuardClearWhileIdleOrListening ==
    status \in {IDLE, LISTENING} => ~isProcessingRef

\* C4 witness: the user stopped while a turn was in flight; status is Idle and the
\* turn is still suspended.
C4_Witness ==
    /\ status = IDLE
    /\ lastEvent = [op |-> "toggleListening", from |-> PROCESSING, res |-> "stopped"]
    /\ \E t \in InFlight : t.pc = "correct"

\* C5: right after the stop branch of toggleListening, taken from Listening,
\* Processing or Speaking, status is Idle, the guard is clear and the recognition
\* object is not active.
C5_DeactivateYieldsIdle ==
    (lastEvent.op = "toggleListening" /\ lastEvent.from \in {LISTENING, PROCESSING, SPEAKING})
        => (status = IDLE /\ ~isProcessingRef /\ ~Active)

\* C5 witness: the stop branch has run from Speaking, with a synthesis pending.
C5_Witness ==
    /\ lastEvent = [op |-> "toggleListening", from |-> SPEAKING, res |-> "stopped"]
    /\ \E t \in InFlight : t.pc = "synth"

\* C6: when a correction or synthesis call completes right after the user stopped,
\* status stays Idle, no playback starts and the recognition is not restarted.
C6_CompletionAfterStopIsNoOp ==
    [][(Ran("toggleListening", "stopped") /\ lastEvent'.op \in {"correction", "synthesis"})
          => /\ status' = IDLE
             /\ recognitionRef' = recognitionRef
             /\ \A t \in BagToSet(turns') : t.pc # "playing"]_vars

\* C7: when the recognition ends while status is Listening and the guard is
\* clear, it is restarted, and status and guard do not change.
C7_EndWhileListeningRestarts ==
    [][(lastEvent'.op = "onend" /\ status = LISTENING /\ ~isProcessingRef)
          => (recognitionRef' = "starting" /\ status' = status
              /\ isProcessingRef' = isProcessingRef)]_vars

\* C8: when the recognition ends while the guard is set or status is Idle, it is
\* not restarted.
C8_EndWhileGuardedOrIdleStops ==
    [][(lastEvent'.op = "onend" /\ (isProcessingRef \/ status = IDLE))
          => recognitionRef' = "inactive"]_vars

\* C9: right after a correction call that failed (it threw, or answered with
\* nothing but blanks) the recorded turn has corrected = original, the original
\* being the accepted transcript, and the turn is awaiting its synthesis.
C9_FailedCorrectionFallsBack ==
    (lastEvent.op = "correction" /\ lastEvent.res \in {"threw", "empty"})
        => /\ lastTranscription.corrected = lastTranscription.original
           /\ lastTranscription.original \in FinalTexts \ {<<>>}
           /\ \E t \in InFlight : t.pc = "synth"

\* C9 witness: the correction call has thrown for an accepted three-letter text.
C9_Witness ==
    /\ Ran("correction", "threw")
    /\ lastTranscription =
           [original |-> <<"a", "a", "a">>, corrected |-> <<"a", "a", "a">>]

\* C10: when the synthesis of a turn in progress (status Speaking, guard set)
\* returns no audio, the step ends with status Listening, the guard clear, the
\* recognition started again and no playback.
C10_NoAudioReturnsToListening ==
    [][(/\ status = SPEAKING /\ isProcessingRef
        /\ lastEvent'.op = "synthesis"
        /\ lastEvent'.res \in {"absent-restarted", "absent-start-threw"})
          => /\ status' = LISTENING
             /\ ~isProcessingRef'
             /\ recognitionRef' = "starting"
             /\ BagCardinality(turns') < BagCardinality(turns)]_vars

\* The cooldown timer of a turn is pending: its playback has ended.
Cooling == \E t \in InFlight : t.pc = "cooldown"
\* The playback of a turn is in progress.
Playing == \E t \in InFlight : t.pc = "playing"

\* C11: the playback end event only arms the timer; while a cooldown is pending
\* in a turn in progress (status Speaking, guard set), no task but the timer
\* callback or a click of the user makes status Listening or clears the guard;
\* when the timer fires and status is not Idle, status becomes Listening, the
\* guard is cleared and recognition.start() is called.
C11_CooldownBeforeListening ==
    [][/\ lastEvent'.op = "onended" =>
            UNCHANGED <<status, statusRef, isProcessingRef, recognitionRef>>
       /\ (/\ Cooling /\ status = SPEAKING /\ isProcessingRef
           /\ (status' = LISTENING \/ ~isProcessingRef'))
            => lastEvent'.op \in {"timer", "toggleListening"}
       /\ (lastEvent'.op = "timer" /\ status # IDLE)
            => /\ status' = LISTENING
               /\ ~isProcessingRef'
               /\ recognitionRef' = start(recognitionRef)]_vars

\* C12: the recognition is never running (started and neither ended nor
\* aborted) while the audio of a turn is playing or while the cooldown timer
\* of a turn is pending.
C12_NoRecognitionDuringPlayback ==
    (Playing \/ Cooling) => ~Active

C14_SpeakingOnlyWithAudio ==
    [][/\ (status' = SPEAKING /\ status # SPEAKING)
            => (lastEvent'.op = "synthesis" /\ lastEvent'.res = "playing")
       /\ (\E t \in InFlight : t.pc = "synth") => status # SPEAKING
       /\ (/\ lastEvent'.op = "synthesis"
           /\ lastEvent'.res \in {"absent-restarted", "absent-start-threw"})
            => status # SPEAKING]_vars

\* C15: an error event with a code other than no-speech sets status Idle and
\* clears the guard, and the end event that follows it does not start the
\* recognition again: status stays Idle and the recognition stays stopped.
C15_FatalErrorStaysIdle ==
    [][/\ (lastEvent'.op = "onerror" /\ lastEvent'.res = "fatal")
            => (status' = IDLE /\ ~isProcessingRef')
       /\ (Ran("onerror", "fatal") /\ lastEvent'.op = "onend")
            => (status' = IDLE /\ recognitionRef' = "inactive")]_vars

\* C16: when the audio that synthesis returned cannot be decoded or played, the
\* catch of speak ends the turn, clears the guard and sets status Idle, and it
\* leaves the recognition as it is: start() is not called.
C16_PlaybackErrorForcesIdle ==
    [][(lastEvent'.op = "synthesis" /\ lastEvent'.res = "decode-error")
        => /\ ~isProcessingRef'
           /\ status' = IDLE
           /\ recognitionRef' = recognitionRef
           /\ BagCardinality(turns') = BagCardinality(turns) - 1]_vars
\* The catch of speak ran while the recognition had ended: a start() would
\* have started it.
C16_Witness ==
    /\ Ran("synthesis", "decode-error")
    /\ status = IDLE
    /\ ~isProcessingRef
    /\ recognitionRef = "inactive"

\* C17: whenever onresult, onend or the cooldown timer callback runs, and so
\* reads statusRef.current, the mirror equals status.
C17_MirrorInStepAtReads ==
    [][lastEvent'.op \in {"onresult", "onend", "timer"} => statusRef = status]_vars

\* C18: a click that finds status Idle, with the recognition object absent or
\* ended, creates the object if it is absent and starts it, leaving status
\* Idle; the start event sets status Listening and clears the guard; and while
\* the recognition that the click started has not delivered its start event,
\* no other task takes status out of Idle.
C18_ActivationListensOnStart ==
    [][/\ (/\ lastEvent'.op = "toggleListening"
           /\ lastEvent'.from = IDLE
           /\ recognitionRef \in {"null", "inactive"})
            => (recognitionRef' = "starting" /\ status' = IDLE)
       /\ lastEvent'.op = "onstart" => (status' = LISTENING /\ ~isProcessingRef')
       /\ (Ran("toggleListening", "started") /\ status' # IDLE)
            => lastEvent'.op = "onstart"]_vars

\* C19: in the component of part_000, a press of the button that finds status
\* Idle starts the recognition (after which its start event sets Listening).
C19_PressWhileIdleStarts ==
    [][(part000' # part000 /\ part000.status = IDLE)
        => part000'.recognitionRef = "starting"]_vars

\* C20: an error event with the code no-speech changes neither status nor the
\* guard (nor the transcription shown), and when the end event that follows it
\* finds status Listening and the guard clear, the recognition is started again.
C20_NoSpeechIsIgnoredAndRestarts ==
    [][/\ (lastEvent'.op = "onerror" /\ lastEvent'.res = "ignored")
            => UNCHANGED <<status, isProcessingRef, lastTranscription>>
       /\ (/\ Ran("onerror", "ignored")
           /\ lastEvent'.op = "onend"
           /\ status = LISTENING
           /\ ~isProcessingRef)
            => (recognitionRef' = "starting" /\ status' = LISTENING)]_vars

\* C21: a result event starts a turn only if it finds status Listening and the
\* guard clear (and carries a final transcript that is not blank); a result
\* event that finds status Idle, Processing or Speaking, or that carries only
\* blanks, changes neither status nor the guard.
C21_TurnStartsOnlyWhileListening ==
    [][lastEvent'.op = "onresult" =>
        /\ lastEvent'.res = "accepted" => (status = LISTENING /\ ~isProcessingRef)
        /\ (status \in {IDLE, PROCESSING, SPEAKING} \/ lastEvent'.res = "blank")
             => UNCHANGED <<status, isProcessingRef>>]_vars

\* C22: the step that accepts a transcript aborts the recognition, and the end
\* event of the aborted recognition does not start it again while the turn is
\* in flight: until the cooldown timer, the recovery of speak or a click of the
\* user, the recognition stays stopped.
C22_AbortedRecognitionStaysStopped ==
    [][/\ (lastEvent'.op = "onresult" /\ lastEvent'.res = "accepted")
            => recognitionRef' = "ending"
       /\ (InFlight # {} /\ recognitionRef = "ending" /\ lastEvent'.op = "onend")
            => recognitionRef' = "inactive"]_vars
====
